---- MODULE Spec2Model ----
(***************************************************************************)
(* Model of connect_database.py: get_db_schema_as_create_statements, the   *)
(* schema introspection call that rebuilds CREATE TABLE text from the      *)
(* catalog of a sqlite, postgres or mysql/mariadb connection.              *)
(*                                                                         *)
(* Text is a sequence of atoms.  Every character that comes from the       *)
(* catalog (names, types, defaults) is one atom; each literal fragment of  *)
(* an f-string in the source is one atom as well, except that the line     *)
(* feed is always an atom of its own, so that lines can be counted.        *)
(***************************************************************************)
EXTENDS Integers, Sequences, FiniteSets, TLC

VARIABLES
    connection,         \* the handle passed in: [kind, open]
    db_type,            \* the dialect tag passed in
    pc,                 \* position inside the call
    cursor,             \* "none" | "open" | "closed"
    tables,             \* result of the list-tables fetchall()
    next_table,         \* 1-based position of the for loop over tables
    schema_statements,  \* the list the loop appends to
    fetched,            \* history: the column rows fetched for each table
    queries,            \* history: the queries executed on the cursor
    result,             \* what the caller gets: [kind, exc, value]
    sql_query,          \* the statement passed to execute_sql_query
    session_state,      \* st.session_state of the chat app: key -> value
    conn,               \* the connection object the chat app opened: [kind, open]
    run,                \* where the chat app stands between script runs
    prompts             \* history: how each chat prompt went

\* the variables of the chat app and of execute_sql_query
app == <<sql_query, session_state, conn, run, prompts>>

vars == <<connection, db_type, pc, cursor, tables, next_table,
          schema_statements, fetched, queries, result, app>>

-----------------------------------------------------------------------------
(* Bounds                                                                  *)

MaxTables == 2
MaxCols == 2

-----------------------------------------------------------------------------
(* Text helpers                                                            *)

NL == "\n"
QUOTE == "'"

RECURSIVE Concat(_)
Concat(ss) == IF ss = <<>> THEN <<>> ELSE Head(ss) \o Concat(Tail(ss))

\* sep.join(parts)
RECURSIVE Join(_, _)
Join(parts, sep) ==
    IF parts = <<>> THEN <<>>
    ELSE IF Len(parts) = 1 THEN parts[1]
    ELSE parts[1] \o sep \o Join(Tail(parts), sep)

\* str.upper(), one character
UpperChar(c) ==
    CASE c = "i" -> "I"
      [] c = "n" -> "N"
      [] c = "t" -> "T"
      [] c = "e" -> "E"
      [] c = "x" -> "X"
      [] c = "c" -> "C"
      [] OTHER -> c

Upper(s) == [i \in 1..Len(s) |-> UpperChar(s[i])]

\* variant: the quotes of a default are left as they are
ReplaceQuoteKept(s) == s

\* s.replace("'", "''")
RECURSIVE ReplaceQuote(_)
ReplaceQuote(s) ==
    IF s = <<>> THEN <<>>
    ELSE IF Head(s) = QUOTE THEN <<QUOTE, QUOTE>> \o ReplaceQuote(Tail(s))
    ELSE <<Head(s)>> \o ReplaceQuote(Tail(s))

Digit(d) == CASE d = 0 -> "0" [] d = 1 -> "1" [] d = 2 -> "2" [] d = 3 -> "3"
              [] d = 4 -> "4" [] d = 5 -> "5" [] d = 6 -> "6" [] d = 7 -> "7"
              [] d = 8 -> "8" [] d = 9 -> "9"

RECURSIVE NatStr(_)
NatStr(n) == IF n < 10 THEN <<Digit(n)>> ELSE NatStr(n \div 10) \o <<Digit(n % 10)>>

\* f"{value}" of a number
FormatNumber(n) == IF n < 0 THEN <<"-">> \o NatStr(0 - n) ELSE NatStr(n)

-----------------------------------------------------------------------------
(* Values a driver hands back                                              *)

PyNone == [t |-> "none", s |-> <<>>, n |-> 0]
PyStr(s) == [t |-> "str", s |-> s, n |-> 0]
PyNum(n) == [t |-> "num", s |-> <<>>, n |-> n]

TableNames == {<<"t">>, <<"u">>, <<"v", "w">>}
\* the name of the column at ordinal position i: c1, c2, ...
ColName(i) == <<"c">> \o NatStr(i)
TypeNames == {<<"i", "N", "t">>}
DefaultValues == {PyNone, PyStr(<<"O", QUOTE, "B">>), PyNum(-12)}

SqliteRows ==
    [cid : {0}, name : {<<>>}, type : TypeNames, notnull : {0, 1},
     dflt_value : DefaultValues, pk : {0, 1, 2}]

PostgresRows ==
    [column_name : {<<>>}, data_type : TypeNames, is_nullable : {"YES", "NO"},
     column_default : DefaultValues]

MysqlRows ==
    [col_name : {<<>>}, col_type : TypeNames, is_nullable : {"YES", "NO"},
     column_key : {"", "PRI", "MUL"}, column_default : DefaultValues,
     extra : {"", "auto_increment"}]

Branch(tag) ==
    CASE tag = "sqlite" -> "sqlite"
      [] tag = "postgres" -> "postgres"
      [] tag \in {"mysql", "mariadb"} -> "mysql"
      [] OTHER -> "unsupported"

RawRows(tag) ==
    CASE Branch(tag) = "sqlite" -> SqliteRows
      [] Branch(tag) = "postgres" -> PostgresRows
      [] Branch(tag) = "mysql" -> MysqlRows
      [] OTHER -> {}

SeqsUpTo(S, n) == UNION {[1..k -> S] : k \in 0..n}

\* the rows come in ordinal order, each column of a table under its own name;
\* PRAGMA table_info also numbers them
Numbered(tag, cols) ==
    [i \in 1..Len(cols) |->
        CASE Branch(tag) = "sqlite" ->
                [cols[i] EXCEPT !.cid = i - 1, !.name = ColName(i)]
          [] Branch(tag) = "postgres" -> [cols[i] EXCEPT !.column_name = ColName(i)]
          [] Branch(tag) = "mysql" -> [cols[i] EXCEPT !.col_name = ColName(i)]]

ColumnLists(tag, rows) == {Numbered(tag, cols) : cols \in SeqsUpTo(rows, MaxCols)}

-----------------------------------------------------------------------------
(* Rendering: the body of the for loop over tables, one per dialect branch *)

\* variant: only pk = 1 counts as a key
SqliteColDefFirstKeyOnly(col) ==
    LET head == <<"    ">> \o col.name \o <<" ">> \o Upper(col.type)
        notnull == IF col.notnull # 0 THEN <<" NOT NULL">> ELSE <<>>
        dflt == IF col.dflt_value.t = "none" THEN <<>>
                ELSE IF col.dflt_value.t = "str"
                     THEN <<" DEFAULT ", QUOTE>> \o ReplaceQuote(col.dflt_value.s)
                          \o <<QUOTE>>
                     ELSE <<" DEFAULT ">> \o FormatNumber(col.dflt_value.n)
        pk == IF col.pk = 1 THEN <<" PRIMARY KEY">> ELSE <<>>
    IN  head \o notnull \o dflt \o pk

\* lines 72-88: one col_def of the sqlite branch
SqliteColDef(col) ==
    LET head == <<"    ">> \o col.name \o <<" ">> \o Upper(col.type)
        notnull == IF col.notnull # 0 THEN <<" NOT NULL">> ELSE <<>>
        dflt == IF col.dflt_value.t = "none" THEN <<>>
                ELSE IF col.dflt_value.t = "str"
                     THEN <<" DEFAULT ", QUOTE>> \o ReplaceQuote(col.dflt_value.s)
                          \o <<QUOTE>>
                     ELSE <<" DEFAULT ">> \o FormatNumber(col.dflt_value.n)
        pk == IF col.pk # 0 THEN <<" PRIMARY KEY">> ELSE <<>>
    IN  head \o notnull \o dflt \o pk

\* lines 113-123: one col_def of the postgres branch
PostgresColDef(col) ==
    LET head == <<"    ">> \o col.column_name \o <<" ">> \o Upper(col.data_type)
        notnull == IF col.is_nullable = "NO" THEN <<" NOT NULL">> ELSE <<>>
        dflt == IF col.column_default.t = "none" THEN <<>>
                ELSE IF col.column_default.t = "str"
                     THEN <<" DEFAULT ", QUOTE>> \o ReplaceQuote(col.column_default.s)
                          \o <<QUOTE>>
                     ELSE <<" DEFAULT ">> \o FormatNumber(col.column_default.n)
    IN  head \o notnull \o dflt

\* variant: the key is appended before the auto-increment
MysqlColDefKeyFirst(col) ==
    LET head == <<"    ">> \o col.col_name \o <<" ">> \o Upper(col.col_type)
        notnull == IF col.is_nullable = "NO" THEN <<" NOT NULL">> ELSE <<>>
        dflt == IF col.column_default.t = "none" THEN <<>>
                ELSE IF col.column_default.t = "str"
                     THEN <<" DEFAULT ", QUOTE>> \o ReplaceQuote(col.column_default.s)
                          \o <<QUOTE>>
                     ELSE <<" DEFAULT ">> \o FormatNumber(col.column_default.n)
        auto == IF col.extra = "auto_increment" THEN <<" AUTO_INCREMENT">> ELSE <<>>
        key == IF col.column_key = "PRI" THEN <<" PRIMARY KEY">> ELSE <<>>
    IN  head \o notnull \o dflt \o key \o auto

\* lines 157-178: one col_definition of the mysql / mariadb branch
MysqlColDef(col) ==
    LET head == <<"    ">> \o col.col_name \o <<" ">> \o Upper(col.col_type)
        notnull == IF col.is_nullable = "NO" THEN <<" NOT NULL">> ELSE <<>>
        dflt == IF col.column_default.t = "none" THEN <<>>
                ELSE IF col.column_default.t = "str"
                     THEN <<" DEFAULT ", QUOTE>> \o ReplaceQuote(col.column_default.s)
                          \o <<QUOTE>>
                     ELSE <<" DEFAULT ">> \o FormatNumber(col.column_default.n)
        auto == IF col.extra = "auto_increment" THEN <<" AUTO_INCREMENT">> ELSE <<>>
        key == IF col.column_key = "PRI" THEN <<" PRIMARY KEY">> ELSE <<>>
    IN  head \o notnull \o dflt \o auto \o key

\* the column loop of the branch the tag selects
column_definitions(tag, columns) ==
    [i \in 1..Len(columns) |->
        CASE Branch(tag) = "sqlite" -> SqliteColDef(columns[i])
          [] Branch(tag) = "postgres" -> PostgresColDef(columns[i])
          [] Branch(tag) = "mysql" -> MysqlColDef(columns[i])]

\* variant: every column line ends with a comma
create_table_sql_trailing_comma(table_name, col_defs) ==
    <<"CREATE TABLE ">> \o table_name \o <<" (", NL>>
        \o Concat([i \in 1..Len(col_defs) |-> col_defs[i] \o <<",", NL>>]) \o <<");">>

\* f"CREATE TABLE {table_name} (\n" + ",\n".join(column_definitions) + "\n);"
create_table_sql(table_name, col_defs) ==
    <<"CREATE TABLE ">> \o table_name \o <<" (", NL>>
        \o Join(col_defs, <<",", NL>>) \o <<NL, ");">>

\* variant: the statements are joined by one line feed
full_schema_string_one_newline(statements) == Join(statements, <<NL>>)

\* "\n\n".join(schema_statements)
full_schema_string(statements) == Join(statements, <<NL, NL>>)

-----------------------------------------------------------------------------
(* The call get_db_schema_as_create_statements(connection, db_type)        *)

\* what create_database_connection returns: None, or the connection object of
\* sqlite3, psycopg2 or mysql.connector; only the last offers is_connected().
\* The tag is a separate argument, so every handle meets every tag, and what
\* the server answers to a query is left open: each query may fail or answer
\* with any rows, whatever the handle and the branch.
Handles ==
    {[kind |-> "None", open |-> FALSE],
     [kind |-> "sqlite3", open |-> TRUE],
     [kind |-> "psycopg2", open |-> TRUE],
     [kind |-> "mysql", open |-> TRUE],
     [kind |-> "mysql", open |-> FALSE]}

HasIsConnected(c) == c.kind = "mysql"

DbTypes == {"sqlite", "postgres", "mysql", "mariadb", "oracle"}
Recognized == {"sqlite", "postgres", "mysql", "mariadb"}

Pending == [kind |-> "pending", exc |-> "", value |-> <<>>]
ReturnNone == [kind |-> "None", exc |-> "", value |-> <<>>]
ReturnStr(s) == [kind |-> "str", exc |-> "", value |-> s]
Raised(e) == [kind |-> "raised", exc |-> e, value |-> <<>>]

\* the catalog answers of the calls: columns without default and key, so that
\* the walk over the tables stays small
PlainRows(tag) ==
    CASE Branch(tag) = "sqlite" ->
            {r \in SqliteRows : r.dflt_value = PyNone /\ r.pk = 0}
      [] Branch(tag) = "postgres" ->
            {r \in PostgresRows : r.column_default = PyNone}
      [] Branch(tag) = "mysql" ->
            {r \in MysqlRows : r.column_default = PyNone /\ r.column_key = ""
                               /\ r.extra = ""}
      [] OTHER -> {}

IsDistinct(s) == \A i, j \in 1..Len(s) : s[i] = s[j] => i = j
TableLists == {tl \in SeqsUpTo(TableNames, MaxTables) : IsDistinct(tl)}

\* the chat app before its first script run, no statement to execute
NoConnection == [kind |-> "None", open |-> FALSE, type |-> ""]

\* a key that is not in st.session_state
Missing == [t |-> "missing", s |-> <<>>, n |-> 0]
NoKeys == [connected |-> Missing, connection |-> Missing, db_type |-> Missing,
           schema |-> Missing, messages |-> Missing]

AppAtRest ==
    /\ sql_query = <<>>
    /\ session_state = NoKeys
    /\ conn = NoConnection
    /\ run = "start"
    /\ prompts = <<>>

ListQuery(ok) == [q |-> "list", table |-> <<>>, ok |-> ok]
DescribeQuery(t, ok) == [q |-> "describe", table |-> t, ok |-> ok]

Init ==
    /\ connection \in Handles
    /\ db_type \in DbTypes
    /\ pc = "entry"
    /\ cursor = "none"
    /\ tables = <<>>
    /\ next_table = 1
    /\ schema_statements = <<>>
    /\ fetched = <<>>
    /\ queries = <<>>
    /\ result = Pending
    /\ AppAtRest

\* line 56: not connection
ConnectionIsNone ==
    /\ pc = "entry"
    /\ connection.kind = "None"
    /\ result' = ReturnNone
    /\ pc' = "done"
    /\ UNCHANGED <<app, connection, db_type, cursor, tables, next_table,
                   schema_statements, fetched, queries>>

\* line 56: connection.is_connected() on an object that has no such method;
\* the call is outside the try block
IsConnectedMissing ==
    /\ pc = "entry"
    /\ connection.kind # "None"
    /\ ~HasIsConnected(connection)
    /\ result' = Raised("AttributeError")
    /\ pc' = "done"
    /\ UNCHANGED <<app, connection, db_type, cursor, tables, next_table,
                   schema_statements, fetched, queries>>

\* lines 56-58: is_connected() answers False
NotConnected ==
    /\ pc = "entry"
    /\ HasIsConnected(connection)
    /\ ~connection.open
    /\ result' = ReturnNone
    /\ pc' = "done"
    /\ UNCHANGED <<app, connection, db_type, cursor, tables, next_table,
                   schema_statements, fetched, queries>>

\* line 56: the check passes
ConnectionOk ==
    /\ pc = "entry"
    /\ HasIsConnected(connection)
    /\ connection.open
    /\ pc' = "cursor"
    /\ UNCHANGED <<app, connection, db_type, cursor, tables, next_table,
                   schema_statements, fetched, queries, result>>

\* lines 60-61
CreateCursor ==
    /\ pc = "cursor"
    /\ cursor' = "open"
    /\ schema_statements' = <<>>
    /\ pc' = "try"
    /\ UNCHANGED <<app, connection, db_type, tables, next_table, fetched, queries, result>>

\* line 60: connection.cursor() raises (the link dropped after the check);
\* the call is outside the try block
CreateCursorRaises ==
    /\ pc = "cursor"
    /\ result' = Raised("OperationalError")
    /\ pc' = "done"
    /\ UNCHANGED <<app, connection, db_type, cursor, tables, next_table,
                   schema_statements, fetched, queries>>

\* lines 186-189 and 199-202: no branch matches the tag
UnsupportedType ==
    /\ pc = "try"
    /\ db_type \notin Recognized
    /\ result' = ReturnNone
    /\ cursor' = "closed"
    /\ pc' = "done"
    /\ UNCHANGED <<app, connection, db_type, tables, next_table, schema_statements,
                   fetched, queries>>

\* lines 65-66, 98-102, 133-134: the list-tables query and its fetchall()
ListTables ==
    /\ pc = "try"
    /\ db_type \in Recognized
    /\ \E tl \in TableLists : tables' = tl
    /\ queries' = Append(queries, ListQuery(TRUE))
    /\ next_table' = 1
    /\ pc' = "loop"
    /\ UNCHANGED <<app, connection, db_type, cursor, schema_statements, fetched, result>>

\* variant: the except handler also closes the connection
ListTablesFailsClosesConnection ==
    /\ pc = "try"
    /\ db_type \in Recognized
    /\ queries' = Append(queries, ListQuery(FALSE))
    /\ result' = ReturnNone
    /\ cursor' = "closed"
    /\ connection' = [connection EXCEPT !.open = FALSE]
    /\ pc' = "done"
    /\ UNCHANGED <<app, db_type, tables, next_table, schema_statements, fetched>>

\* lines 65, 98, 133 raise; lines 196-202
ListTablesFails ==
    /\ pc = "try"
    /\ db_type \in Recognized
    /\ queries' = Append(queries, ListQuery(FALSE))
    /\ result' = ReturnNone
    /\ cursor' = "closed"
    /\ pc' = "done"
    /\ UNCHANGED <<app, connection, db_type, tables, next_table, schema_statements, fetched>>

\* lines 67-94, 103-129, 136-184: one pass of the loop over tables, the
\* describe-columns query answering with rows out of the given set
Describe(rows) ==
    /\ pc = "loop"
    /\ next_table <= Len(tables)
    /\ \E columns \in ColumnLists(db_type, rows) :
          /\ fetched' = Append(fetched, columns)
          /\ schema_statements' =
                Append(schema_statements,
                       create_table_sql(tables[next_table],
                                        column_definitions(db_type, columns)))
    /\ queries' = Append(queries, DescribeQuery(tables[next_table], TRUE))
    /\ next_table' = next_table + 1
    /\ UNCHANGED <<app, connection, db_type, pc, cursor, tables, result>>

DescribeTable == Describe(PlainRows(db_type))

\* variant: the except handler returns what was rendered so far
DescribeTableFailsPartial ==
    /\ pc = "loop"
    /\ next_table <= Len(tables)
    /\ queries' = Append(queries, DescribeQuery(tables[next_table], FALSE))
    /\ result' = ReturnStr(full_schema_string(schema_statements))
    /\ cursor' = "closed"
    /\ pc' = "done"
    /\ UNCHANGED <<app, connection, db_type, tables, next_table, schema_statements, fetched>>

\* variant: a failed describe query is skipped and the loop goes on
DescribeTableFailsSkips ==
    /\ pc = "loop"
    /\ next_table <= Len(tables)
    /\ queries' = Append(queries, DescribeQuery(tables[next_table], FALSE))
    /\ next_table' = next_table + 1
    /\ UNCHANGED <<app, connection, db_type, pc, cursor, tables, schema_statements,
                   fetched, result>>

\* lines 68, 104, 137 raise; lines 196-202
DescribeTableFails ==
    /\ pc = "loop"
    /\ next_table <= Len(tables)
    /\ queries' = Append(queries, DescribeQuery(tables[next_table], FALSE))
    /\ result' = ReturnNone
    /\ cursor' = "closed"
    /\ pc' = "done"
    /\ UNCHANGED <<app, connection, db_type, tables, next_table, schema_statements, fetched>>

\* variant: an empty list of statements is answered with None
ReturnSchemaNoneWhenEmpty ==
    /\ pc = "loop"
    /\ next_table > Len(tables)
    /\ result' = IF schema_statements = <<>> THEN ReturnNone
                 ELSE ReturnStr(full_schema_string(schema_statements))
    /\ cursor' = "closed"
    /\ pc' = "done"
    /\ UNCHANGED <<app, connection, db_type, tables, next_table, schema_statements,
                   fetched, queries>>

\* lines 192-194 and 199-202
ReturnSchema ==
    /\ pc = "loop"
    /\ next_table > Len(tables)
    /\ result' = ReturnStr(full_schema_string(schema_statements))
    /\ cursor' = "closed"
    /\ pc' = "done"
    /\ UNCHANGED <<app, connection, db_type, tables, next_table, schema_statements,
                   fetched, queries>>

Next ==
    \/ ConnectionIsNone
    \/ IsConnectedMissing
    \/ NotConnected
    \/ ConnectionOk
    \/ CreateCursor
    \/ CreateCursorRaises
    \/ UnsupportedType
    \/ ListTables
    \/ ListTablesFails
    \/ DescribeTable
    \/ DescribeTableFails
    \/ ReturnSchema

Spec == Init /\ [][Next]_vars

-----------------------------------------------------------------------------
(* The same call from the point where the list-tables query has answered   *)
(* with one table, the describe-columns query answering with any rows.     *)

OneTable == CHOOSE t \in TableNames : Len(t) > 1

InitColumns ==
    /\ connection \in {h \in Handles : HasIsConnected(h) /\ h.open}
    /\ db_type \in Recognized
    /\ pc = "loop"
    /\ cursor = "open"
    /\ tables = <<OneTable>>
    /\ next_table = 1
    /\ schema_statements = <<>>
    /\ fetched = <<>>
    /\ queries = <<ListQuery(TRUE)>>
    /\ result = Pending
    /\ AppAtRest

DescribeAnyRows == Describe(RawRows(db_type))

NextColumns == DescribeAnyRows

SpecColumns == InitColumns /\ [][NextColumns]_vars

-----------------------------------------------------------------------------
(* The call execute_sql_query(connection, sql_query)                       *)

MaxRows == 3

SqlTexts == {<<"SELECT 1">>, <<"SELECT name FROM t">>, <<"DELETE FROM t">>}
RowValues == {<<1>>, <<2>>, <<1, 2>>}
ResultSets == SeqsUpTo(RowValues, MaxRows)

SqlQuery(text, ok) == [q |-> "sql", table |-> text, ok |-> ok]
ReturnList(rows) == [kind |-> "list", exc |-> "", value |-> rows]

QueryFrame == <<db_type, tables, next_table, schema_statements, session_state,
                conn, run, prompts>>

InitQuery ==
    /\ connection \in Handles
    /\ sql_query \in SqlTexts
    /\ db_type = "mysql"
    /\ pc = "q_entry"
    /\ cursor = "none"
    /\ tables = <<>>
    /\ next_table = 1
    /\ schema_statements = <<>>
    /\ fetched = <<>>
    /\ queries = <<>>
    /\ result = Pending
    /\ session_state = NoKeys
    /\ conn = NoConnection
    /\ run = "start"
    /\ prompts = <<>>

\* line 216: not connection
QueryConnectionIsNone ==
    /\ pc = "q_entry"
    /\ connection.kind = "None"
    /\ result' = ReturnNone
    /\ pc' = "done"
    /\ UNCHANGED <<QueryFrame, connection, sql_query, cursor, fetched, queries>>

\* line 216: connection.is_connected() on an object that has no such method;
\* the call is outside the try block
QueryIsConnectedMissing ==
    /\ pc = "q_entry"
    /\ connection.kind # "None"
    /\ ~HasIsConnected(connection)
    /\ result' = Raised("AttributeError")
    /\ pc' = "done"
    /\ UNCHANGED <<QueryFrame, connection, sql_query, cursor, fetched, queries>>

\* lines 216-218: is_connected() answers False
QueryNotConnected ==
    /\ pc = "q_entry"
    /\ HasIsConnected(connection)
    /\ ~connection.open
    /\ result' = ReturnNone
    /\ pc' = "done"
    /\ UNCHANGED <<QueryFrame, connection, sql_query, cursor, fetched, queries>>

\* line 216: the check passes
QueryConnectionOk ==
    /\ pc = "q_entry"
    /\ HasIsConnected(connection)
    /\ connection.open
    /\ pc' = "q_cursor"
    /\ UNCHANGED <<QueryFrame, connection, sql_query, cursor, fetched, queries, result>>

\* lines 220-221
QueryCreateCursor ==
    /\ pc = "q_cursor"
    /\ cursor' = "open"
    /\ pc' = "q_try"
    /\ UNCHANGED <<QueryFrame, connection, sql_query, fetched, queries, result>>

\* line 220: connection.cursor() raises, outside the try block
QueryCreateCursorRaises ==
    /\ pc = "q_cursor"
    /\ result' = Raised("OperationalError")
    /\ pc' = "done"
    /\ UNCHANGED <<QueryFrame, connection, sql_query, cursor, fetched, queries>>

\* lines 224-232 and 238-241: execute, fetchall, return results
QueryReturnsRows ==
    /\ pc = "q_try"
    /\ \E rows \in ResultSets :
          /\ fetched' = <<rows>>
          /\ result' = ReturnList(rows)
    /\ queries' = Append(queries, SqlQuery(sql_query, TRUE))
    /\ cursor' = "closed"
    /\ pc' = "done"
    /\ UNCHANGED <<QueryFrame, connection, sql_query>>

\* line 224 raises; lines 234-241
QueryExecuteFails ==
    /\ pc = "q_try"
    /\ queries' = Append(queries, SqlQuery(sql_query, FALSE))
    /\ result' = ReturnNone
    /\ cursor' = "closed"
    /\ pc' = "done"
    /\ UNCHANGED <<QueryFrame, connection, sql_query, fetched>>

\* line 228 raises (the statement has no result set); lines 234-241
QueryFetchFails ==
    /\ pc = "q_try"
    /\ queries' = Append(queries, SqlQuery(sql_query, TRUE))
    /\ result' = ReturnNone
    /\ cursor' = "closed"
    /\ pc' = "done"
    /\ UNCHANGED <<QueryFrame, connection, sql_query, fetched>>

NextQuery ==
    \/ QueryConnectionIsNone
    \/ QueryIsConnectedMissing
    \/ QueryNotConnected
    \/ QueryConnectionOk
    \/ QueryCreateCursor
    \/ QueryCreateCursorRaises
    \/ QueryReturnsRows
    \/ QueryExecuteFails
    \/ QueryFetchFails

SpecQuery == InitQuery /\ [][NextQuery]_vars

-----------------------------------------------------------------------------
(* The chat app streamlit_sql_chatbot_app.py: one action per script run    *)

MaxPrompts == 2

PyBool(b) == [t |-> "bool", s |-> <<>>, n |-> IF b THEN 1 ELSE 0]
PyList(l) == [t |-> "list", s |-> l, n |-> 0]
\* the reference to the connection object conn
ConnRef == [t |-> "conn", s |-> <<>>, n |-> 0]

\* lines 72-78
Defaults == [connected |-> PyBool(FALSE), connection |-> PyNone, db_type |-> PyNone,
             schema |-> PyNone, messages |-> PyList(<<>>)]

\* lines 79-81: every missing key gets its default
init_state(ss) ==
    [connected |-> IF ss.connected = Missing THEN Defaults.connected ELSE ss.connected,
     connection |-> IF ss.connection = Missing THEN Defaults.connection ELSE ss.connection,
     db_type |-> IF ss.db_type = Missing THEN Defaults.db_type ELSE ss.db_type,
     schema |-> IF ss.schema = Missing THEN Defaults.schema ELSE ss.schema,
     messages |-> IF ss.messages = Missing THEN Defaults.messages ELSE ss.messages]

\* line 99: the types the form offers
FormTypes == {"sqlite", "postgres", "mysql", "mariadb"}

\* lines 23-34 of connect_database.py: the object a successful connect returns
Connect(tag) ==
    [kind |-> CASE tag = "sqlite" -> "sqlite3"
                [] tag = "postgres" -> "psycopg2"
                [] OTHER -> "mysql",
     open |-> TRUE, type |-> tag]

\* the schemas get_db_schema_as_create_statements can return in the app: per
\* table one column without default and key
AppSchemas(tag) ==
    LET cols == Numbered(tag, <<CHOOSE r \in PlainRows(tag) : TRUE>>)
    IN  {full_schema_string([i \in 1..Len(tl) |->
                create_table_sql(tl[i], column_definitions(tag, cols))])
            : tl \in TableLists}

\* how get_db_schema_as_create_statements(conn, db_type) can end, see Next
SchemaCallResults(c, tag) ==
    IF ~HasIsConnected(c) THEN {Raised("AttributeError")}
    ELSE {Raised("OperationalError"), ReturnNone}
            \cup {ReturnStr(text) : text \in AppSchemas(tag)}

AppFrame == <<connection, db_type, pc, cursor, tables, next_table,
              schema_statements, fetched, queries, result, sql_query>>

InitApp ==
    /\ connection = NoConnection
    /\ db_type = ""
    /\ pc = "app"
    /\ cursor = "none"
    /\ tables = <<>>
    /\ next_table = 1
    /\ schema_statements = <<>>
    /\ fetched = <<>>
    /\ queries = <<>>
    /\ result = Pending
    /\ AppAtRest

Connected == session_state.connected = PyBool(TRUE)

\* a script run that begins after the first load or after a rerun: line 84
RunInitState ==
    /\ run \in {"start", "rerun"}
    /\ session_state' = init_state(session_state)
    /\ run' = "idle"
    /\ UNCHANGED <<AppFrame, conn, prompts>>

\* lines 131-136: the form is submitted and create_database_connection
\* returns None
ConnectFails ==
    /\ run = "idle"
    /\ ~Connected
    /\ conn' = NoConnection
    /\ UNCHANGED <<AppFrame, session_state, run, prompts>>

\* lines 131-140: the connection is opened and the schema call raises; the
\* exception ends the script run
ConnectSchemaRaises ==
    /\ run = "idle"
    /\ ~Connected
    /\ \E tag \in FormTypes :
          /\ \E r \in SchemaCallResults(Connect(tag), tag) : r.kind = "raised"
          /\ conn' = Connect(tag)
    /\ UNCHANGED <<AppFrame, session_state, run, prompts>>

\* lines 131-145: the connection is opened, the schema call returns None or
\* the empty string, the connection is closed
ConnectNoSchema ==
    /\ run = "idle"
    /\ ~Connected
    /\ \E tag \in FormTypes :
          /\ \E r \in SchemaCallResults(Connect(tag), tag) :
                r.kind = "None" \/ (r.kind = "str" /\ r.value = <<>>)
          /\ conn' = [Connect(tag) EXCEPT !.open = FALSE]
    /\ UNCHANGED <<AppFrame, session_state, run, prompts>>

\* lines 131-154: the connection is opened, the schema is read and both are
\* kept in the session; st.rerun()
ConnectOk ==
    /\ run = "idle"
    /\ ~Connected
    /\ \E tag \in FormTypes :
          \E r \in SchemaCallResults(Connect(tag), tag) :
              /\ r.kind = "str" /\ r.value # <<>>
              /\ conn' = Connect(tag)
              /\ session_state' = [session_state EXCEPT
                                      !.connected = PyBool(TRUE),
                                      !.connection = ConnRef,
                                      !.db_type = PyStr(<<tag>>),
                                      !.schema = PyStr(r.value)]
    /\ run' = "rerun"
    /\ UNCHANGED <<AppFrame, prompts>>

\* lines 214-221: the Disconnect button
Disconnect ==
    /\ run = "idle"
    /\ Connected
    /\ conn' = [conn EXCEPT !.open = FALSE]
    /\ session_state' = NoKeys
    /\ prompts' = <<>>
    /\ run' = "rerun"
    /\ UNCHANGED AppFrame

-----------------------------------------------------------------------------
(* A chat prompt: lines 230-250 with run_sql_safe, lines 170-196           *)

UserMessage == [role |-> "user", content |-> "prompt", sql |-> <<>>]
AssistantMessage(content, sql) == [role |-> "assistant", content |-> content, sql |-> sql]

\* what text2sql.generate can return: not a dict, or a dict with its "sql"
\* and "query" entries (PyNone: no such entry)
SqlEntries == {PyNone, PyStr(<<>>), PyStr(<<"SELECT 1">>)}
TranslatorOutputs ==
    {[dict |-> FALSE, sql |-> PyNone, query |-> PyNone]}
        \cup [dict : {TRUE}, sql : SqlEntries, query : SqlEntries]

Truthy(v) == v.t = "str" /\ v.s # <<>>

\* lines 176-179: sql_json.get("sql") or sql_json.get("query")
GeneratedSql(sql_json) ==
    IF ~sql_json.dict THEN PyNone
    ELSE IF Truthy(sql_json.sql) THEN sql_json.sql ELSE sql_json.query

PromptAllowed == run = "idle" /\ Connected /\ Len(prompts) < MaxPrompts

Messages == session_state.messages.s
AppendMessages(ms) ==
    [session_state EXCEPT !.messages = PyList(session_state.messages.s \o ms)]

Outcome(translator, execution) == [translator |-> translator, execution |-> execution]

\* lines 232-236 and 174: the user message is saved, nl_to_sql raises and the
\* exception ends the script run
PromptTranslatorRaises ==
    /\ PromptAllowed
    /\ session_state' = AppendMessages(<<UserMessage>>)
    /\ prompts' = Append(prompts, Outcome("raises", "not_run"))
    /\ UNCHANGED <<AppFrame, conn, run>>

\* lines 181-182 and 238-241
PromptNoSql ==
    /\ PromptAllowed
    /\ \E sql_json \in TranslatorOutputs : ~Truthy(GeneratedSql(sql_json))
    /\ session_state' =
          AppendMessages(<<UserMessage, AssistantMessage("nosql", <<>>)>>)
    /\ prompts' = Append(prompts, Outcome("unusable", "not_run"))
    /\ UNCHANGED <<AppFrame, conn, run>>

\* lines 185-194 and 242-245: cursor(), execute() or fetchall() raises
PromptSqlFails ==
    /\ PromptAllowed
    /\ \E sql_json \in TranslatorOutputs :
          /\ Truthy(GeneratedSql(sql_json))
          /\ session_state' =
                AppendMessages(<<UserMessage,
                                 AssistantMessage("norows", GeneratedSql(sql_json).s)>>)
    /\ prompts' = Append(prompts, Outcome("usable", "error"))
    /\ UNCHANGED <<AppFrame, conn, run>>

\* lines 185-196 and 242-245: the statement runs and fetchall() is empty
PromptNoRows ==
    /\ PromptAllowed
    /\ \E sql_json \in TranslatorOutputs :
          /\ Truthy(GeneratedSql(sql_json))
          /\ session_state' =
                AppendMessages(<<UserMessage,
                                 AssistantMessage("norows", GeneratedSql(sql_json).s)>>)
    /\ prompts' = Append(prompts, Outcome("usable", "no_rows"))
    /\ UNCHANGED <<AppFrame, conn, run>>

\* lines 185-196 and 246-250: the statement runs and returns rows
PromptRows ==
    /\ PromptAllowed
    /\ \E sql_json \in TranslatorOutputs :
          /\ Truthy(GeneratedSql(sql_json))
          /\ session_state' =
                AppendMessages(<<UserMessage,
                                 AssistantMessage("rows", GeneratedSql(sql_json).s)>>)
    /\ prompts' = Append(prompts, Outcome("usable", "rows"))
    /\ UNCHANGED <<AppFrame, conn, run>>

NextApp ==
    \/ RunInitState
    \/ ConnectFails
    \/ ConnectSchemaRaises
    \/ ConnectNoSchema
    \/ ConnectOk
    \/ Disconnect
    \/ PromptTranslatorRaises
    \/ PromptNoSql
    \/ PromptSqlFails
    \/ PromptNoRows
    \/ PromptRows

SpecApp == InitApp /\ [][NextApp]_vars

-----------------------------------------------------------------------------
(* Reading rendered text back                                              *)

Pos(text, a) ==
    LET at == {i \in 1..Len(text) : text[i] = a}
    IN  IF at = {} THEN 0 ELSE CHOOSE i \in at : \A j \in at : i <= j

Count(text, a) == Cardinality({i \in 1..Len(text) : text[i] = a})

RECURSIVE Lines(_)
Lines(text) ==
    LET p == Pos(text, NL)
    IN  IF p = 0 THEN <<text>>
        ELSE <<SubSeq(text, 1, p - 1)>> \o Lines(SubSeq(text, p + 1, Len(text)))

\* line i + 1 of the lines of a statement of n columns, without the comma
\* that ends it
ColumnLineOf(ls, n, i) ==
    LET ln == ls[i + 1]
    IN  IF i < n /\ ln # <<>> /\ ln[Len(ln)] = "," THEN SubSeq(ln, 1, Len(ln) - 1) ELSE ln

\* the text of column i of statement k
ColumnLine(k, i) == ColumnLineOf(Lines(schema_statements[k]), Len(fetched[k]), i)

\* a statement of N >= 1 columns has N + 2 lines
WellFormed(k) ==
    Len(fetched[k]) >= 1 => Count(schema_statements[k], NL) = Len(fetched[k]) + 1

\* the raw row fields by their meaning
RowName(r) == IF Branch(db_type) = "sqlite" THEN r.name
              ELSE IF Branch(db_type) = "postgres" THEN r.column_name ELSE r.col_name
RowType(r) == IF Branch(db_type) = "sqlite" THEN r.type
              ELSE IF Branch(db_type) = "postgres" THEN r.data_type ELSE r.col_type
RowNotNullable(r) == IF Branch(db_type) = "sqlite" THEN r.notnull # 0
                     ELSE r.is_nullable = "NO"
RowDefault(r) == IF Branch(db_type) = "sqlite" THEN r.dflt_value ELSE r.column_default
RowAuto(r) == Branch(db_type) = "mysql" /\ r.extra = "auto_increment"
RowPk(r) == IF Branch(db_type) = "sqlite" THEN r.pk # 0
            ELSE Branch(db_type) = "mysql" /\ r.column_key = "PRI"

Rendered == {k \in 1..Len(schema_statements) : TRUE}
Cols(k) == 1..Len(fetched[k])

T_NOTNULL == " NOT NULL"
T_DEFAULT == " DEFAULT "
T_AUTO == " AUTO_INCREMENT"
T_PK == " PRIMARY KEY"

-----------------------------------------------------------------------------
(* Claims about the call, checked under Spec                               *)

Done == pc = "done"
SomeQueryFailed == \E i \in 1..Len(queries) : ~queries[i].ok

\* C1: in every dialect, when the list-tables query or the describe-columns
\* query of some table fails, the call ends with the single error outcome
\* (None) and hands the caller no schema text, in particular not the
\* statements already rendered for the tables before the failing one.
C1_QueryFailureReturnsNone ==
    (Done /\ SomeQueryFailed) => (result = ReturnNone /\ ~queries[Len(queries)].ok)

\* the describe query of the second table failed after the first was rendered
C1_Witness ==
    /\ Done
    /\ Len(queries) = 3
    /\ queries[3].q = "describe" /\ ~queries[3].ok
    /\ Len(schema_statements) = 1
    /\ Len(fetched[1]) >= 1
    /\ result = ReturnNone

\* C2: when the describe-columns query of a table answers with zero rows the
\* call fails: no schema text is returned.
C2_EmptyTableFails ==
    (Done /\ \E k \in 1..Len(fetched) : fetched[k] = <<>>) => result.kind # "str"

\* C3: with a recognized dialect and an open handle, when the list-tables
\* query succeeds with zero tables the call returns the empty string (not
\* None, no error) and no describe-columns query is executed.
C3_NoTablesReturnsEmptyString ==
    (Done /\ queries # <<>> /\ queries[1] = ListQuery(TRUE) /\ tables = <<>>)
        => (result = ReturnStr(<<>>) /\ queries = <<ListQuery(TRUE)>>)

C3_Witness ==
    /\ Done
    /\ db_type \in Recognized
    /\ connection.open
    /\ queries = <<ListQuery(TRUE)>>
    /\ tables = <<>>
    /\ result.kind = "str" /\ result.value = <<>>

\* C4: a null or disconnected handle, or an unrecognized dialect tag, makes the
\* call fail before the connection is touched: no schema text is returned, no
\* cursor was created and no query executed.
C4_ValidatedBeforeAnyUse ==
    (Done /\ (connection.kind = "None" \/ ~connection.open \/ db_type \notin Recognized))
        => (result.kind \notin {"str", "pending"} /\ cursor = "none" /\ queries = <<>>)

\* C5: for a handle of any supported type and any dialect tag the call ends by
\* returning a schema string or None; no exception reaches the caller.
C5_NoExceptionEscapes ==
    Done => result.kind \in {"str", "None"}

Offset(k) ==
    LET F[j \in 0..Len(schema_statements)] ==
            IF j = 0 THEN 0 ELSE F[j - 1] + Len(schema_statements[j]) + 2
    IN  F[k - 1]

\* C9: on success the returned text is the statements of exactly the tables
\* the list-tables query returned, one per table in the returned order,
\* separated by exactly one blank line, nothing before the first statement
\* and nothing after the last.
C9_DocumentIsStatementsInCatalogOrder ==
    (Done /\ result.kind = "str") =>
        LET n == Len(tables)
            doc == result.value
        IN  /\ Len(schema_statements) = n
            /\ Len(fetched) = n
            /\ \A k \in 1..n :
                  /\ schema_statements[k] =
                        create_table_sql(tables[k], column_definitions(db_type, fetched[k]))
                  /\ Len(doc) >= Offset(k) + Len(schema_statements[k])
                  /\ SubSeq(doc, Offset(k) + 1, Offset(k) + Len(schema_statements[k]))
                        = schema_statements[k]
                  /\ k < n => SubSeq(doc, Offset(k + 1) - 1, Offset(k + 1)) = <<NL, NL>>
            /\ Len(doc) = IF n = 0 THEN 0 ELSE Offset(n) + Len(schema_statements[n])

\* two tables, returned in an order that is not the sorted one
C9_Witness ==
    /\ Done
    /\ result.kind = "str"
    /\ tables = <<<<"u">>, <<"t">>>>
    /\ Len(fetched[1]) = 2
    /\ Count(result.value, "CREATE TABLE ") = 2

\* C11: the queries of a call are one list-tables query, then one
\* describe-columns query per table in catalog order; none is issued twice,
\* and a failed query is the last one of the call, which ends right after it.
C11_QueriesInSequenceNoRetry ==
    /\ Len(queries) <= 1 + Len(tables)
    /\ \A i \in 1..Len(queries) :
          /\ i = 1 => queries[i].q = "list"
          /\ i > 1 => (queries[i].q = "describe" /\ queries[i].table = tables[i - 1])
          /\ ~queries[i].ok => i = Len(queries)
    /\ SomeQueryFailed => Done
    /\ (Done /\ result.kind = "str") => Len(queries) = 1 + Len(tables)

\* the describe query of the first of two tables failed: no query for the second
C11_Witness ==
    /\ Done
    /\ Len(tables) = 2
    /\ Len(queries) = 2
    /\ queries[1] = ListQuery(TRUE)
    /\ queries[2] = DescribeQuery(tables[1], FALSE)

\* C12: the call never opens, closes or reconnects the handle, so on every
\* exit path the handle is as it was at entry, and a cursor the call created
\* is closed when the call returns.
C12_HandleUntouchedCursorClosed ==
    /\ [][connection' = connection]_vars
    /\ [](Done => cursor # "open")

\* a query failed: the cursor is closed and the handle still open
C12_Witness ==
    /\ Done
    /\ SomeQueryFailed
    /\ cursor = "closed"
    /\ connection.open

-----------------------------------------------------------------------------
(* Claims about the rendered statement, checked under SpecColumns          *)

\* C6: in all three dialects a table whose describe-columns answer has N >= 1
\* rows is rendered with exactly N column lines between the line
\* 'CREATE TABLE <name> (' and the closing line ');', line i describing row i,
\* every line but the last ending with a comma.
C6_OneLinePerColumnInOrder ==
    \A k \in Rendered :
        Len(fetched[k]) >= 1 =>
            LET ls == Lines(schema_statements[k])
                N == Len(fetched[k])
            IN  /\ Len(ls) = N + 2
                /\ ls[1] = <<"CREATE TABLE ">> \o tables[k] \o <<" (">>
                /\ ls[N + 2] = <<");">>
                /\ \A i \in 1..N :
                      ls[i + 1] = column_definitions(db_type, <<fetched[k][i]>>)[1]
                                    \o (IF i < N THEN <<",">> ELSE <<>>)

\* two different rows, rendered
C6_Witness ==
    /\ Len(schema_statements) = 1
    /\ Len(fetched[1]) = 2
    /\ RowName(fetched[1][1]) # RowName(fetched[1][2])
    /\ Len(Lines(schema_statements[1])) = 4
    /\ Count(schema_statements[1], ",") = 1

Present(ln, a) == Pos(ln, a) # 0

\* the positions that are not 0 increase
InOrder(ps) ==
    \A a, b \in 1..Len(ps) : (a < b /\ ps[a] # 0 /\ ps[b] # 0) => ps[a] < ps[b]

\* C7: in every dialect branch a column line is the column name, the
\* upper-cased type, then NOT NULL exactly when the column is not nullable
\* (right after the type), then DEFAULT exactly when a default exists, then
\* AUTO_INCREMENT exactly when set, then PRIMARY KEY exactly when set.
C7_TokensInFixedOrder ==
    \A k \in Rendered : WellFormed(k) /\
        LET ls == Lines(schema_statements[k])
        IN  \A i \in Cols(k) :
            LET r == fetched[k][i]
                ln == ColumnLineOf(ls, Len(fetched[k]), i)
                head == <<"    ">> \o RowName(r) \o <<" ">> \o Upper(RowType(r))
                pn == Pos(ln, T_NOTNULL)
                pd == Pos(ln, T_DEFAULT)
                pa == Pos(ln, T_AUTO)
                pp == Pos(ln, T_PK)
            IN  /\ Len(ln) >= Len(head)
                /\ SubSeq(ln, 1, Len(head)) = head
                /\ \A j \in 1..Len(RowType(r)) :
                      ln[Len(head) - Len(RowType(r)) + j] \notin {"i", "n", "t", "e", "x", "c"}
                /\ pn # 0 <=> RowNotNullable(r)
                /\ pn # 0 => pn = Len(head) + 1
                /\ pd # 0 <=> RowDefault(r) # PyNone
                /\ pa # 0 <=> RowAuto(r)
                /\ pp # 0 <=> RowPk(r)
                /\ InOrder(<<pn, pd, pa, pp>>)
                /\ \A a \in {T_NOTNULL, T_DEFAULT, T_AUTO, T_PK} : Count(ln, a) <= 1
                /\ pp # 0 => pp = Len(ln)
                /\ pa # 0 => pa >= Len(ln) - 1

\* a column line with all four attribute tokens, and a nullable one beside it
C7_Witness ==
    /\ Len(schema_statements) = 1
    /\ Len(fetched[1]) = 2
    /\ \A a \in {T_NOTNULL, T_DEFAULT, T_AUTO, T_PK} : Present(ColumnLine(1, 1), a)
    /\ ~RowNotNullable(fetched[1][2])
    /\ ~Present(ColumnLine(1, 2), T_NOTNULL)

\* the text that follows the DEFAULT token, up to the next attribute token
DefaultText(ln) ==
    LET from == Pos(ln, T_DEFAULT) + 1
        stops == {p \in {Pos(ln, T_AUTO), Pos(ln, T_PK)} : p # 0}
        to == IF stops = {} THEN Len(ln)
              ELSE (CHOOSE p \in stops : \A q \in stops : p <= q) - 1
    IN  SubSeq(ln, from, to)

Doubled(s) == Concat([i \in 1..Len(s) |-> IF s[i] = QUOTE THEN <<QUOTE, QUOTE>> ELSE <<s[i]>>])

DigitValue(c) == CHOOSE d \in 0..9 : Digit(d) = c
IsDigit(c) == \E d \in 0..9 : Digit(d) = c

RECURSIVE ParseNat(_)
ParseNat(s) == IF Len(s) = 1 THEN DigitValue(s[1])
               ELSE 10 * ParseNat(SubSeq(s, 1, Len(s) - 1)) + DigitValue(s[Len(s)])

\* the text is the decimal literal of n
IsLiteralOf(s, n) ==
    LET body == IF s # <<>> /\ s[1] = "-" THEN Tail(s) ELSE s
    IN  /\ body # <<>>
        /\ \A i \in 1..Len(body) : IsDigit(body[i])
        /\ (IF s[1] = "-" THEN 0 - ParseNat(body) ELSE ParseNat(body)) = n

\* C8: in every dialect a string default is rendered as DEFAULT followed by
\* the value in single quotes with every single quote inside it doubled, a
\* numeric default as its bare literal without quotes, and a null default
\* renders no DEFAULT token.
C8_DefaultRendering ==
    \A k \in Rendered : WellFormed(k) /\
        LET ls == Lines(schema_statements[k])
        IN  \A i \in Cols(k) :
            LET d == RowDefault(fetched[k][i])
                ln == ColumnLineOf(ls, Len(fetched[k]), i)
                text == DefaultText(ln)
            IN  /\ d.t = "none" => ~Present(ln, T_DEFAULT)
                /\ d.t = "str" =>
                      /\ Present(ln, T_DEFAULT)
                      /\ text = <<QUOTE>> \o Doubled(d.s) \o <<QUOTE>>
                      /\ Count(text, QUOTE) = 2 * Count(d.s, QUOTE) + 2
                /\ d.t = "num" =>
                      /\ Present(ln, T_DEFAULT)
                      /\ Count(text, QUOTE) = 0
                      /\ IsLiteralOf(text, d.n)

\* the default O'B rendered as 'O''B', beside a numeric default
C8_Witness ==
    /\ Len(schema_statements) = 1
    /\ Len(fetched[1]) = 2
    /\ RowDefault(fetched[1][1]) = PyStr(<<"O", QUOTE, "B">>)
    /\ DefaultText(ColumnLine(1, 1)) = <<QUOTE, "O", QUOTE, QUOTE, "B", QUOTE>>
    /\ RowDefault(fetched[1][2]).t = "num"
    /\ DefaultText(ColumnLine(1, 2)) = <<"-", "1", "2">>

-----------------------------------------------------------------------------
(* Claims about execute_sql_query, checked under SpecQuery                 *)

\* C13: execute_sql_query returns the list of rows when the query succeeds
\* and returns data, and None when the connection is invalid, an error occurs
\* or the query returns no data; the cursor it created is closed and the
\* connection is left as it was.
C13_RowsOrNone ==
    Done =>
        LET gotRows == fetched # <<>> /\ fetched[1] # <<>>
            noData == fetched # <<>> /\ fetched[1] = <<>>
            invalid == connection.kind = "None" \/ ~connection.open
        IN  /\ gotRows => result = ReturnList(fetched[1])
            /\ (invalid \/ SomeQueryFailed \/ noData) => result = ReturnNone
            /\ cursor # "open"


-----------------------------------------------------------------------------
(* Claims about the chat app, checked under SpecApp                        *)

\* C14: whenever the session is connected its connection is an open
\* connection, db_type is the type it was opened with and schema is a
\* non-empty string; a failed connect attempt leaves the session keys at
\* their values and the connection it opened closed; a disconnect closes the
\* connection and removes every session key.
C14_SessionInvariant ==
    /\ Connected =>
          /\ session_state.connection = ConnRef
          /\ conn.open
          /\ session_state.db_type = PyStr(<<conn.type>>)
          /\ session_state.schema.t = "str"
          /\ session_state.schema.s # <<>>
    /\ (run = "idle" /\ ~Connected) =>
          /\ session_state = Defaults
          /\ ~conn.open
    /\ session_state = NoKeys => (run # "idle" /\ ~conn.open)

\* C15: every chat prompt appends one user message followed by one
\* assistant message; the reply is "couldn't generate" exactly when the
\* translator returned no usable statement, and then nothing is executed;
\* it is "ran but returned no rows" only when the statement executed without
\* error and returned no rows; it is the plain reply when rows came back.
C15_OneReplyPerPrompt ==
    session_state.messages # Missing =>
        /\ Len(Messages) = 2 * Len(prompts)
        /\ \A i \in 1..Len(prompts) :
              LET reply == Messages[2 * i]
              IN  /\ Messages[2 * i - 1] = UserMessage
                  /\ reply.role = "assistant"
                  /\ reply.content = "nosql" <=> prompts[i].translator # "usable"
                  /\ reply.content = "nosql" => prompts[i].execution = "not_run"
                  /\ reply.content = "norows" => prompts[i].execution = "no_rows"
                  /\ prompts[i].execution = "rows" => reply.content = "rows"

=============================================================================
